---- MODULE Spec2Model ----
(***************************************************************************)
(* A model of charactergraph.py (class Charactergraph): the text           *)
(* segmenter, the name normaliser, the frequency ranker, the person-name   *)
(* extractor and the _process pipeline.                                    *)
(*                                                                         *)
(* A Python str is a sequence of one-character strings; " " is the         *)
(* separator and "_" the joining marker.                                   *)
(***************************************************************************)
EXTENDS Integers, Sequences, FiniteSets, TLC

VARIABLES
    pc,                    \* position of the running function
    text,                  \* the `text` argument / local
    size_type,             \* "int" or "str": the type of the segment_size argument
    segment_size,          \* the segment_size argument (when an int)
    i,                     \* segment_text: the cursor
    yields,                \* segment_text: what each next() yielded, in order
    ner_names,             \* the names, in the order the for loop iterates them
    outs,                  \* replace_space_underscore_fornames: the results of successive calls
    items,                 \* get_most_frequent_items_inorder: the argument
    top_n,                 \* get_most_frequent_items_inorder: the argument
    most_frequent_names,   \* get_most_frequent_items_inorder: local
    items_chronologically, \* get_most_frequent_items_inorder: local
    k,                     \* get_most_frequent_items_inorder: index of the scan loop
    stopwords,             \* get_person_names: the argument
    loads,                 \* get_person_names: outcome of each spacy.load, in order
    downloads,             \* get_person_names: number of spacy.cli.download calls
    patterns,              \* get_person_names: the EntityRuler's patterns
    spans,                 \* get_person_names: every (text, label) span the recognizer returned
    names,                 \* get_person_names: local `names`
    result,                \* the list returned to the caller (empty before the return)
    book_text,             \* _process: what get_ebook_text returned
    tokens_,               \* _process: self._tokens
    names_                 \* _process: self._names

vars == <<pc, text, size_type, segment_size, i, yields, ner_names, outs, items, top_n,
          most_frequent_names, items_chronologically, k, stopwords, loads, downloads,
          patterns, spans, names, result, book_text, tokens_, names_>>

segVars  == <<text, size_type, segment_size, i, yields>>
normVars == <<ner_names, outs>>
rankVars == <<items, top_n, most_frequent_names, items_chronologically, k>>
gpnVars  == <<stopwords, loads, downloads, patterns, spans, names>>
procVars == <<book_text, tokens_, names_>>

(***************************************************************************)
(* Bounds of the model.                                                    *)
(***************************************************************************)
MaxTextLen == 5      \* longest enumerated text of the segmenter
MaxSegSize == 4      \* largest enumerated segment_size
MaxYields == 4       \* next() calls followed on one generator
MaxItems == 5        \* longest enumerated item list of the ranker
MaxTopN == 4         \* largest enumerated top_n
MaxNormLen == 5      \* longest enumerated text of the name normaliser
MaxWords == 4        \* most words of an enumerated text of the extractor
GpnSegmentSize == 4  \* stands for get_person_names' segment_size of 100000, scaled to the texts

separator == " "
marker == "_"

Min(a, b) == IF a < b THEN a ELSE b
Max(a, b) == IF a > b THEN a ELSE b

\* All sequences over S of length at most n.
SeqsUpTo(S, n) == UNION {[1..m -> S] : m \in 0..n}

(***************************************************************************)
(* Python str primitives.                                                  *)
(***************************************************************************)
\* A slice bound as Python normalises it: negative counts from the end,
\* and the bound is clamped to [0, len].
NormIdx(n, len) == IF n < 0 THEN Max(n + len, 0) ELSE Min(n, len)

\* s[a:b]
PySlice(s, a, b) ==
    LET lo == NormIdx(a, Len(s))
        hi == NormIdx(b, Len(s))
    IN IF lo < hi THEN SubSeq(s, lo + 1, hi) ELSE <<>>

\* s.rpartition(sep) for a one-character sep: split at the LAST sep;
\* without any, (empty, empty, s).
RPartition(s, sep) ==
    LET at == {j \in 1..Len(s) : s[j] = sep}
    IN IF at = {}
       THEN [before |-> <<>>, sep |-> <<>>, after |-> s]
       ELSE LET j == CHOOSE x \in at : \A y \in at : y <= x
            IN [before |-> SubSeq(s, 1, j - 1), sep |-> <<sep>>,
                after |-> SubSeq(s, j + 1, Len(s))]

\* s.rstrip(sep)
RStrip(s, sep) ==
    LET keep == {j \in 1..Len(s) : s[j] # sep}
    IN IF keep = {} THEN <<>>
       ELSE SubSeq(s, 1, CHOOSE x \in keep : \A y \in keep : y <= x)

\* s.split(sep) with the empty strings dropped: the words of s.
RECURSIVE Words(_)
Words(s) ==
    IF s = <<>> THEN <<>>
    ELSE IF Head(s) = separator THEN Words(Tail(s))
    ELSE LET stops == {j \in 1..Len(s) : s[j] = separator}
             e == IF stops = {} THEN Len(s) + 1
                  ELSE CHOOSE x \in stops : \A y \in stops : x <= y
         IN <<SubSeq(s, 1, e - 1)>> \o Words(SubSeq(s, e + 1, Len(s)))

RECURSIVE Flatten(_)
Flatten(ss) == IF ss = <<>> THEN <<>> ELSE Head(ss) \o Flatten(Tail(ss))

(***************************************************************************)
(* segment_text: one pass of the loop body, from the cursor to the yield.  *)
(***************************************************************************)
SegWindow(t, at, size) == PySlice(t, at, at + size)

\* i += segment_size - len(after)
SegAdvanceWholeWindow(t, at, size) == at + size
SegAdvance(t, at, size) == at + size - Len(RPartition(SegWindow(t, at, size), separator).after)

\* yield before.rstrip(separator)
SegChunk(t, at, size) == RStrip(RPartition(SegWindow(t, at, size), separator).before, separator)

\* The test's input: '999 1000 1001 1002 1003 1004' with segment_size 10.
TestText == <<"9","9","9"," ","1","0","0","0"," ","1","0","0","1"," ",
              "1","0","0","2"," ","1","0","0","3"," ","1","0","0","4">>
TestSize == 10

SegTexts == SeqsUpTo({"a", separator}, MaxTextLen)

SegIdle ==
    /\ ner_names = <<>> /\ outs = <<>>
    /\ items = <<>> /\ top_n = 1 /\ most_frequent_names = <<>>
    /\ items_chronologically = <<>> /\ k = 0
    /\ stopwords = {} /\ loads = <<>> /\ downloads = 0 /\ patterns = {}
    /\ spans = <<>> /\ names = <<>> /\ result = <<>>
    /\ book_text = <<>> /\ tokens_ = <<>> /\ names_ = <<>>

\* segment_text(text, segment_size) was called: a generator that has not run yet.
InitSeg ==
    /\ pc = "seg"
    /\ \/ /\ text \in SegTexts
          /\ \/ size_type = "int" /\ segment_size \in -1..MaxSegSize
             \/ size_type = "str" /\ segment_size = 0
       \/ text = TestText /\ size_type = "int" /\ segment_size = TestSize
    /\ i = 0
    /\ yields = <<>>
    /\ SegIdle

\* next(): the loop body runs to its yield.
SegYield ==
    /\ pc = "seg"
    /\ Len(yields) < MaxYields
    /\ i < Len(text)
    /\ size_type = "int"
    /\ i' = SegAdvance(text, i, segment_size)
    /\ yields' = Append(yields, [at |-> i,
                                 window |-> SegWindow(text, i, segment_size),
                                 chunk |-> SegChunk(text, i, segment_size)])
    /\ UNCHANGED <<pc, text, size_type, segment_size>>
    /\ UNCHANGED <<normVars, rankVars, gpnVars, procVars, result>>

\* next(): i + segment_size with a str segment_size raises TypeError.
SegTypeError ==
    /\ pc = "seg"
    /\ i < Len(text)
    /\ size_type = "str"
    /\ pc' = "TypeError"
    /\ UNCHANGED <<segVars, normVars, rankVars, gpnVars, procVars, result>>

\* next(): the while condition is false, the generator is exhausted.
SegStop ==
    /\ pc = "seg"
    /\ i >= Len(text)
    /\ pc' = "StopIteration"
    /\ UNCHANGED <<segVars, normVars, rankVars, gpnVars, procVars, result>>

NextSeg == SegYield \/ SegTypeError \/ SegStop

SpecSeg == InitSeg /\ [][NextSeg]_vars

(***************************************************************************)
(* Claims about segment_text (SpecSeg).                                    *)
(***************************************************************************)
ValidSize == size_type = "int" /\ segment_size >= 1

HasSeparator(s) == \E j \in 1..Len(s) : s[j] = separator

LongestWord(t) ==
    LET ws == Words(t)
    IN IF ws = <<>> THEN 0
       ELSE LET n == CHOOSE x \in 1..Len(ws) : \A y \in 1..Len(ws) : Len(ws[y]) <= Len(ws[x])
            IN Len(ws[n])

Chunks == [n \in 1..Len(yields) |-> yields[n].chunk]

RECURSIVE WordsOfAll(_)
WordsOfAll(cs) == IF cs = <<>> THEN <<>> ELSE Words(Head(cs)) \o WordsOfAll(Tail(cs))

\* C1: for a non-empty text and a segment_size of at least the longest word
\* plus one separator, once the generator is exhausted the words of the
\* yielded chunks, in yield order, are exactly the words of the text
\* (the trailing partial window included).
C1_ChunksReproduceWords ==
    (/\ pc = "StopIteration"
     /\ ValidSize
     /\ text # <<>>
     /\ segment_size >= LongestWord(text) + 1)
    => WordsOfAll(Chunks) = Words(text)

\* C6: with a segment_size that is zero, negative or not an integer no chunk
\* is ever yielded, and requesting the first chunk of a text ends in an error.
C6_InvalidSizeYieldsNothing ==
    (size_type = "str" \/ segment_size <= 0)
    => /\ yields = <<>>
       /\ (text # <<>> /\ pc # "seg") => pc \in {"ValueError", "TypeError"}

\* C7: with a positive segment_size no chunk is ever yielded from a window
\* that holds no separator (the iteration fails instead), and every yield
\* follows an advance of the cursor, so the iteration cannot go on forever.
C7_NoSeparatorFails ==
    ValidSize
    => \A n \in 1..Len(yields) :
          /\ HasSeparator(yields[n].window)
          /\ n > 1 => yields[n].at > yields[n - 1].at

\* The chunk is the slice of the text that starts at the cursor.
IsSliceAtCursor(y) ==
    /\ y.at >= 0
    /\ y.at + Len(y.chunk) <= Len(text)
    /\ y.chunk = SubSeq(text, y.at + 1, y.at + Len(y.chunk))

\* The slice's left end is the start of the text or follows a separator, its
\* right end is the end of the text or precedes a separator, and its last
\* character is no separator.
OnWordBoundaries(y) ==
    /\ y.at = 0 \/ text[y.at] = separator
    /\ y.at + Len(y.chunk) = Len(text) \/ text[y.at + Len(y.chunk) + 1] = separator
    /\ y.chunk[Len(y.chunk)] # separator

\* C8 as stated: with a positive segment_size every chunk is at most
\* segment_size long and is a slice of the text that starts at the beginning
\* of a word (its first character is a word's first character) and ends
\* immediately before a separator or at the end of the text.
C8_ChunkStartsAtWordStart ==
    ValidSize
    => \A n \in 1..Len(yields) :
          LET y == yields[n]
          IN /\ Len(y.chunk) <= segment_size
             /\ IsSliceAtCursor(y)
             /\ y.chunk # <<>> => (OnWordBoundaries(y) /\ y.chunk[1] # separator)

\* C8 (amended): with a positive segment_size every chunk is at most
\* segment_size long and is the slice of the text at the cursor; a non-empty
\* chunk begins at the start of the text or right after a separator and ends
\* right before a separator or at the end of the text, so it never starts or
\* ends inside a word. (It may begin with separators, and it may be empty.)
C8_ChunkOnWordBoundaries ==
    ValidSize
    => \A n \in 1..Len(yields) :
          LET y == yields[n]
          IN /\ Len(y.chunk) <= segment_size
             /\ IsSliceAtCursor(y)
             /\ y.chunk # <<>> => OnWordBoundaries(y)

\* A second chunk, not empty, was cut out of the middle of the text.
C8_Witness ==
    /\ ValidSize
    /\ Len(yields) >= 2
    /\ yields[2].chunk # <<>>
    /\ yields[2].at > 0
    /\ yields[2].at + Len(yields[2].chunk) < Len(text)

(***************************************************************************)
(* get_most_frequent_items_inorder                                         *)
(***************************************************************************)
ItemIds == {1, 2, 3}

Range(s) == {s[j] : j \in 1..Len(s)}

\* Counter(items)[x]
Count(its, x) == Cardinality({j \in 1..Len(its) : its[j] = x})

FirstIndex(its, x) == CHOOSE j \in 1..Len(its) : its[j] = x /\ \A h \in 1..(j - 1) : its[h] # x

\* The keys of Counter(items): a dict keeps them in insertion order, which
\* is the order of first occurrence.
RECURSIVE CounterKeys(_)
CounterKeys(its) ==
    IF its = <<>> THEN <<>>
    ELSE LET init == SubSeq(its, 1, Len(its) - 1)
             last == its[Len(its)]
         IN IF last \in Range(init) THEN CounterKeys(init)
            ELSE Append(CounterKeys(init), last)

\* One insertion of a stable sort by descending count: x goes behind every
\* key whose count is at least its own.
InsertByCountTiesReversed(its, sorted, x) ==
    LET before == {j \in 1..Len(sorted) : Count(its, sorted[j]) > Count(its, x)}
        n == Cardinality(before)
    IN SubSeq(sorted, 1, n) \o <<x>> \o SubSeq(sorted, n + 1, Len(sorted))
InsertByCount(its, sorted, x) ==
    LET before == {j \in 1..Len(sorted) : Count(its, sorted[j]) >= Count(its, x)}
        n == Cardinality(before)
    IN SubSeq(sorted, 1, n) \o <<x>> \o SubSeq(sorted, n + 1, Len(sorted))

RECURSIVE SortedByCount(_, _)
SortedByCount(its, keys) ==
    IF keys = <<>> THEN <<>>
    ELSE InsertByCount(its, SortedByCount(its, SubSeq(keys, 1, Len(keys) - 1)), keys[Len(keys)])

\* [item for item, _ in Counter(items).most_common(top_n)]: the first top_n
\* keys of the stable sort by descending count.
MostCommon(its, n) ==
    LET sorted == SortedByCount(its, CounterKeys(its))
    IN SubSeq(sorted, 1, Min(n, Len(sorted)))

\* if item in most_frequent_names and item not in items_chronologically: append
ScanAppendNoDedup(chron, item, mfn) ==
    IF item \in Range(mfn) THEN Append(chron, item) ELSE chron
ScanAppend(chron, item, mfn) ==
    IF item \in Range(mfn) /\ item \notin Range(chron) THEN Append(chron, item) ELSE chron

RankIdle ==
    /\ text = <<>> /\ size_type = "int" /\ segment_size = 1 /\ i = 0 /\ yields = <<>>
    /\ ner_names = <<>> /\ outs = <<>>
    /\ stopwords = {} /\ loads = <<>> /\ downloads = 0 /\ patterns = {}
    /\ spans = <<>> /\ names = <<>> /\ result = <<>>
    /\ book_text = <<>> /\ tokens_ = <<>> /\ names_ = <<>>

InitRank ==
    /\ pc = "rank_start"
    /\ items \in SeqsUpTo(ItemIds, MaxItems)
    /\ top_n \in 1..MaxTopN
    /\ most_frequent_names = <<>>
    /\ items_chronologically = <<>>
    /\ k = 1
    /\ RankIdle

\* Lines 195-202: the top_n most common, then the empty output list.
RankCount ==
    /\ pc = "rank_start"
    /\ most_frequent_names' = MostCommon(items, top_n)
    /\ items_chronologically' = <<>>
    /\ k' = 1
    /\ pc' = "rank_scan"
    /\ UNCHANGED <<items, top_n, segVars, normVars, gpnVars, procVars, result>>

\* One iteration of `for item in items`, its break included.
RankScan ==
    /\ pc = "rank_scan"
    /\ k <= Len(items)
    /\ items_chronologically' = ScanAppend(items_chronologically, items[k], most_frequent_names)
    /\ IF Len(items_chronologically') >= top_n
       THEN pc' = "rank_return" /\ k' = k
       ELSE pc' = pc /\ k' = k + 1
    /\ UNCHANGED <<items, top_n, most_frequent_names, segVars, normVars, gpnVars,
                   procVars, result>>

\* The for loop ran out of items.
RankScanEnd ==
    /\ pc = "rank_scan"
    /\ k > Len(items)
    /\ pc' = "rank_return"
    /\ UNCHANGED <<rankVars, segVars, normVars, gpnVars, procVars, result>>

\* return items_chronologically
RankReturn ==
    /\ pc = "rank_return"
    /\ result' = items_chronologically
    /\ pc' = "rank_done"
    /\ UNCHANGED <<rankVars, segVars, normVars, gpnVars, procVars>>

NextRank == RankCount \/ RankScan \/ RankScanEnd \/ RankReturn

SpecRank == InitRank /\ [][NextRank]_vars

(***************************************************************************)
(* Claims about get_most_frequent_items_inorder (SpecRank).                *)
(***************************************************************************)
NoRepeats(s) == \A a, b \in 1..Len(s) : a # b => s[a] # s[b]

NumDistinct(its) == Cardinality(Range(its))

\* C2: the returned list has no repeated element, holds only elements of
\* items, is ordered by first occurrence in items, and is at most
\* min(top_n, number of distinct items) long; with top_n at least the number
\* of distinct items it is all distinct items in first-occurrence order, and
\* for empty items it is empty.
C2_DistinctInFirstOccurrenceOrder ==
    pc = "rank_done"
    => /\ NoRepeats(result)
       /\ Range(result) \subseteq Range(items)
       /\ \A a, b \in 1..Len(result) :
             a < b => FirstIndex(items, result[a]) < FirstIndex(items, result[b])
       /\ Len(result) <= Min(top_n, NumDistinct(items))
       /\ top_n >= NumDistinct(items)
             => /\ Len(result) = NumDistinct(items)
                /\ Range(result) = Range(items)
       /\ items = <<>> => result = <<>>

\* The scan was cut short by top_n, and the result is in first-occurrence
\* order although its second item is the more frequent one.
C2_Witness ==
    /\ pc = "rank_done"
    /\ Len(result) = 2
    /\ top_n < NumDistinct(items)
    /\ Count(items, result[2]) > Count(items, result[1])
    /\ k < Len(items)

\* y ranks above x: a higher count, or the same count and an earlier first
\* occurrence.
Outranks(its, y, x) ==
    \/ Count(its, y) > Count(its, x)
    \/ Count(its, y) = Count(its, x) /\ FirstIndex(its, y) < FirstIndex(its, x)

\* The top n distinct items: those outranked by fewer than n others.
TopSet(its, n) ==
    {x \in Range(its) : Cardinality({y \in Range(its) : Outranks(its, y, x)}) < n}

\* C3: the returned items are exactly the top_n distinct items by count,
\* ties ranked by first encounter; no item left out has a strictly higher
\* count than a returned one; and the scan's early stop omits no selected
\* item.
C3_TopNByCount ==
    pc = "rank_done"
    => /\ Range(result) = TopSet(items, top_n)
       /\ \A x \in Range(result), y \in Range(items) \ Range(result) :
             Count(items, y) <= Count(items, x)
       /\ Range(result) = Range(most_frequent_names)

\* A tie at the cut: an item left out has the same count as one returned,
\* and the scan stopped before the end of items.
C3_Witness ==
    /\ pc = "rank_done"
    /\ k < Len(items)
    /\ Len(result) = top_n
    /\ \E x \in Range(result), y \in Range(items) \ Range(result) :
          Count(items, y) = Count(items, x)

(***************************************************************************)
(* replace_space_underscore_fornames                                       *)
(***************************************************************************)
\* word.replace(' ', '_')
SpaceToMarker(word) == [j \in 1..Len(word) |-> IF word[j] = separator THEN marker ELSE word[j]]

IsPrefix(p, s) == Len(p) <= Len(s) /\ SubSeq(s, 1, Len(p)) = p

\* re.compile('(%s)' % word).sub(repl, t) for a word without regular
\* expression metacharacters: the leftmost occurrence is replaced and the
\* search resumes behind it, so occurrences that overlap a replaced one are
\* not seen. (The empty pattern matches everywhere and is replaced by the
\* empty repl: t is unchanged.)
RECURSIVE ReSub(_, _, _)
ReSub(word, repl, t) ==
    IF word = <<>> \/ Len(t) < Len(word) THEN t
    ELSE IF IsPrefix(word, t)
         THEN repl \o ReSub(word, repl, SubSeq(t, Len(word) + 1, Len(t)))
         ELSE <<Head(t)>> \o ReSub(word, repl, Tail(t))

\* for word in ner_names: text = reg.sub(repl, text)
RECURSIVE ReplaceSpaceUnderscoreForNames(_, _)
ReplaceSpaceUnderscoreForNames(t, ns) ==
    IF ns = <<>> THEN t
    ELSE ReplaceSpaceUnderscoreForNames(ReSub(Head(ns), SpaceToMarker(Head(ns)), t), Tail(ns))

\* The test's input: 'Moby Dick, Captain Ahab' with ('Moby Dick', 'Captain Ahab').
MobyDick == <<"M","o","b","y"," ","D","i","c","k">>
CaptainAhab == <<"C","a","p","t","a","i","n"," ","A","h","a","b">>
TestNormText == MobyDick \o <<",", " ">> \o CaptainAhab
TestNormExpected == <<"M","o","b","y","_","D","i","c","k",","," ",
                      "C","a","p","t","a","i","n","_","A","h","a","b">>

\* Names that overlap themselves, overlap each other, or hold the marker.
NormNames == {<<"a"," ","a">>, <<"a"," ","b">>, <<"b"," ","a">>, <<"_","b"," ","a">>}

\* Every order in which a set of at most two of the names can be iterated.
NormNameOrders ==
    {<<>>} \cup {<<n>> : n \in NormNames}
           \cup {<<n, m>> : <<n, m>> \in {p \in NormNames \X NormNames : p[1] # p[2]}}

NormIdle ==
    /\ size_type = "int" /\ segment_size = 1 /\ i = 0 /\ yields = <<>>
    /\ items = <<>> /\ top_n = 1 /\ most_frequent_names = <<>>
    /\ items_chronologically = <<>> /\ k = 0
    /\ stopwords = {} /\ loads = <<>> /\ downloads = 0 /\ patterns = {}
    /\ spans = <<>> /\ names = <<>> /\ result = <<>>
    /\ book_text = <<>> /\ tokens_ = <<>> /\ names_ = <<>>

InitNorm ==
    /\ pc = "norm"
    /\ \/ /\ text \in SeqsUpTo({"a", "b", separator}, MaxNormLen)
          /\ ner_names \in NormNameOrders
       \/ /\ text = TestNormText
          /\ ner_names \in {<<MobyDick, CaptainAhab>>, <<CaptainAhab, MobyDick>>}
    /\ outs = <<>>
    /\ NormIdle

\* One call of replace_space_underscore_fornames on the current text; the
\* next call is made on its result, with the same names.
NormCall ==
    /\ pc = "norm"
    /\ Len(outs) < 2
    /\ text' = ReplaceSpaceUnderscoreForNames(text, ner_names)
    /\ outs' = Append(outs, text')
    /\ UNCHANGED <<pc, ner_names, size_type, segment_size, i, yields, rankVars, gpnVars,
                   procVars, result>>

NextNorm == NormCall

SpecNorm == InitNorm /\ [][NextNorm]_vars

(***************************************************************************)
(* Claims about replace_space_underscore_fornames (SpecNorm).              *)
(***************************************************************************)
\* C9: a second application with the same names to the first application's
\* output returns that output unchanged, whatever the names and their order;
\* and the test's text gives 'Moby_Dick, Captain_Ahab'.
C9_Idempotent ==
    /\ Len(outs) = 2 => outs[2] = outs[1]
    /\ (Len(outs) >= 1 /\ Range(ner_names) = {MobyDick, CaptainAhab})
          => outs[1] = TestNormExpected

(***************************************************************************)
(* get_person_names                                                        *)
(***************************************************************************)
\* str.lower(), character by character.
LowerChar(c) ==
    CASE c = "A" -> "a"
      [] c = "B" -> "b"
      [] OTHER -> c
Lower(s) == [j \in 1..Len(s) |-> LowerChar(s[j])]

\* stopwords_lower = [word.lower() for word in stopwords]
StopwordsAsGiven(sw) == sw
StopwordsLower(sw) == {Lower(w) : w \in sw}

\* str.strip() of the separator
LStrip(s, sep) ==
    LET keep == {j \in 1..Len(s) : s[j] # sep}
    IN IF keep = {} THEN <<>>
       ELSE SubSeq(s, CHOOSE x \in keep : \A y \in keep : x <= y, Len(s))
Strip(s) == RStrip(LStrip(s, separator), separator)

\* names_to_rulepatterns([word.replace(' ', '_') for word in ner_names]):
\* the patterns of the stripped, non-empty names, all labelled PERSON.
NamesToRulePatterns(ns) ==
    {Strip(SpaceToMarker(ns[j])) : j \in {h \in 1..Len(ns) : Strip(SpaceToMarker(ns[h])) # <<>>}}

\* The entities of one labelling of the segment's words: the words whose
\* label is not "O", in text order.
RECURSIVE EntsOf(_, _)
EntsOf(ws, labels) ==
    IF ws = <<>> THEN <<>>
    ELSE LET rest == EntsOf(Tail(ws), Tail(labels))
         IN IF Head(labels) = "O" THEN rest
            ELSE <<[text |-> Head(ws), label |-> Head(labels)]>> \o rest

\* doc = nlp(segment); doc.ents, for a stub of the recognizer: every word of
\* the segment is labelled PERSON, GPE or nothing ("O"), freely, but a word
\* that is an EntityRuler pattern is a PERSON. The set of all outcomes.
Recognize(segment, pats) ==
    LET ws == Words(segment)
    IN {EntsOf(ws, labels) :
          labels \in {l \in [1..Len(ws) -> {"PERSON", "GPE", "O"}] :
                         \A j \in 1..Len(ws) : ws[j] \in pats => l[j] = "PERSON"}}

\* [ent.text for ent in doc.ents
\*    if ent.label_ == 'PERSON' and ent.text.lower() not in stopwords_lower]
RECURSIVE PersonNames(_, _)
PersonNames(ents, sw) ==
    IF ents = <<>> THEN <<>>
    ELSE LET e == Head(ents)
             rest == PersonNames(Tail(ents), sw)
         IN IF e.label = "PERSON" /\ Lower(e.text) \notin StopwordsLower(sw)
            THEN <<e.text>> \o rest
            ELSE rest

\* Texts of at most MaxWords words, single-spaced, with or without a
\* trailing separator.
GpnVocabulary == {<<"A">>, <<"a">>, <<"B">>}

RECURSIVE Join(_)
Join(ws) ==
    IF ws = <<>> THEN <<>>
    ELSE IF Len(ws) = 1 THEN Head(ws)
    ELSE Head(ws) \o <<separator>> \o Join(Tail(ws))

GpnTexts ==
    {<<>>} \cup UNION {{Join(ws), Join(ws) \o <<separator>>} :
                          ws \in UNION {[1..m -> GpnVocabulary] : m \in 1..MaxWords}}

GpnNerNames == {<<>>, <<<<"A", separator, "a">>>>}
GpnStopwords == {{}, {<<"A">>}, {<<"b">>}}

GpnIdle ==
    /\ size_type = "int" /\ segment_size = GpnSegmentSize /\ i = 0 /\ yields = <<>>
    /\ outs = <<>>
    /\ items = <<>> /\ top_n = 1 /\ most_frequent_names = <<>>
    /\ items_chronologically = <<>> /\ k = 0
    /\ loads = <<>> /\ downloads = 0 /\ patterns = {}
    /\ spans = <<>> /\ names = <<>> /\ result = <<>>

\* get_person_names(text, ner_names, stopwords) was called.
InitGpn ==
    /\ pc = "gpn_load"
    /\ text \in GpnTexts
    /\ ner_names \in GpnNerNames
    /\ stopwords \in GpnStopwords
    /\ GpnIdle
    /\ book_text = <<>> /\ tokens_ = <<>> /\ names_ = <<>>

\* Line 241: nlp = spacy.load(...). It succeeds, raises IOError (the model
\* is not installed) or raises something else, which propagates.
GpnLoad ==
    /\ pc = "gpn_load"
    /\ \E outcome \in {"ok", "IOError", "Error"} :
          /\ loads' = Append(loads, outcome)
          /\ pc' = CASE outcome = "ok" -> "gpn_augment"
                     [] outcome = "IOError" -> "gpn_download"
                     [] OTHER -> "Error"
    /\ UNCHANGED <<stopwords, downloads, patterns, spans, names, segVars, normVars,
                   rankVars, procVars, result>>

\* Line 243: spacy.cli.download(...), in the except clause. The download is
\* taken to return; nothing in get_person_names handles its failure.
GpnDownload ==
    /\ pc = "gpn_download"
    /\ downloads' = downloads + 1
    /\ pc' = "gpn_reload"
    /\ UNCHANGED <<stopwords, loads, patterns, spans, names, segVars, normVars,
                   rankVars, procVars, result>>

\* Line 244: the second spacy.load, outside any try: its error propagates.
GpnReloadSwallowing ==
    /\ pc = "gpn_reload"
    /\ \E outcome \in {"ok", "IOError"} : loads' = Append(loads, outcome)
    /\ pc' = "gpn_augment"
    /\ UNCHANGED <<stopwords, downloads, patterns, spans, names, segVars, normVars,
                   rankVars, procVars, result>>
GpnReload ==
    /\ pc = "gpn_reload"
    /\ \E outcome \in {"ok", "IOError"} :
          /\ loads' = Append(loads, outcome)
          /\ pc' = IF outcome = "ok" THEN "gpn_augment" ELSE "IOError"
    /\ UNCHANGED <<stopwords, downloads, patterns, spans, names, segVars, normVars,
                   rankVars, procVars, result>>

\* Lines 249-262: with additional names, join them in the text and register
\* them as patterns; then create the segment generator and the empty list.
GpnAugment ==
    /\ pc = "gpn_augment"
    /\ IF ner_names # <<>>
       THEN /\ text' = ReplaceSpaceUnderscoreForNames(text, ner_names)
            /\ patterns' = NamesToRulePatterns(ner_names)
       ELSE UNCHANGED <<text, patterns>>
    /\ segment_size' = GpnSegmentSize
    /\ size_type' = "int"
    /\ i' = 0
    /\ yields' = <<>>
    /\ names' = <<>>
    /\ pc' = "gpn_loop"
    /\ UNCHANGED <<stopwords, loads, downloads, spans, normVars, rankVars, procVars, result>>

\* Lines 266-270: one iteration of `for segment in segments`: the generator
\* runs to its next yield, the recognizer runs on the segment, and the
\* PERSON entities that are no stopwords are appended.
GpnSegment ==
    /\ pc = "gpn_loop"
    /\ Len(yields) < MaxYields
    /\ i < Len(text)
    /\ i' = SegAdvance(text, i, segment_size)
    /\ yields' = Append(yields, [at |-> i,
                                 window |-> SegWindow(text, i, segment_size),
                                 chunk |-> SegChunk(text, i, segment_size)])
    /\ \E ents \in Recognize(SegChunk(text, i, segment_size), patterns) :
          /\ spans' = Append(spans, ents)
          /\ names' = names \o PersonNames(ents, stopwords)
    /\ UNCHANGED <<pc, text, size_type, segment_size, stopwords, loads, downloads,
                   patterns, normVars, rankVars, procVars, result>>

\* Line 272: the generator is exhausted; return names.
GpnReturn ==
    /\ pc = "gpn_loop"
    /\ i >= Len(text)
    /\ result' = names
    /\ pc' = "gpn_returned"
    /\ UNCHANGED <<gpnVars, segVars, normVars, rankVars, procVars>>

NextGpn == GpnLoad \/ GpnDownload \/ GpnReload \/ GpnAugment \/ GpnSegment \/ GpnReturn

SpecGpn == InitGpn /\ [][NextGpn]_vars

(***************************************************************************)
(* Claims about get_person_names (SpecGpn).                                *)
(***************************************************************************)
\* The span is labelled PERSON and its lowercased text differs from the
\* lowercase form of every stopword.
IsKeptSpan(e) ==
    /\ e.label = "PERSON"
    /\ \A w \in stopwords : Lower(e.text) # Lower(w)

\* The texts of the kept spans, in order.
RECURSIVE KeptTexts(_)
KeptTexts(es) ==
    IF es = <<>> THEN <<>>
    ELSE IF IsKeptSpan(Head(es)) THEN <<Head(es).text>> \o KeptTexts(Tail(es))
    ELSE KeptTexts(Tail(es))

\* C4: what get_person_names returns is exactly the texts of the spans the
\* recognizer returned, segment after segment and in detection order within
\* a segment, that are labelled PERSON and whose lowercased text equals the
\* lowercase form of no stopword; repeated mentions are kept.
C4_ReturnsKeptSpansInOrder ==
    pc = "gpn_returned" => result = KeptTexts(Flatten(spans))

\* Two segments were recognized; a span was suppressed by a stopword of a
\* different letter case; and the joined augmented name, met first,
\* precedes an organically recognized name in the result.
C4_Witness ==
    /\ pc = "gpn_returned"
    /\ Len(yields) >= 2
    /\ spans[1] # <<>> /\ spans[2] # <<>>
    /\ \E j \in 1..Len(Flatten(spans)) :
          LET e == Flatten(spans)[j]
          IN e.label = "PERSON" /\ e.text \notin stopwords /\ ~IsKeptSpan(e)
    /\ Len(result) >= 2
    /\ result[1] \in patterns
    /\ result[2] \notin patterns

WordTokenize(t) == Words(t)

\* _process() was called on a book whose chapter text is book_text.
InitProc ==
    /\ pc = "proc_start"
    /\ book_text \in GpnTexts
    /\ ner_names \in GpnNerNames
    /\ stopwords \in GpnStopwords
    /\ text = <<>>
    /\ tokens_ = <<>>
    /\ names_ = <<>>
    /\ GpnIdle

\* Lines 279-282: text = get_ebook_text(book); self._tokens = word_tokenize(text)
ProcTokenize ==
    /\ pc = "proc_start"
    /\ text' = book_text
    /\ tokens_' = WordTokenize(book_text)
    /\ pc' = "proc_preprocess"
    /\ UNCHANGED <<book_text, names_, size_type, segment_size, i, yields, normVars,
                   rankVars, gpnVars, result>>

\* Lines 285-288: text = replace_space_underscore_fornames(text, self.ner_names),
\* then the call of get_person_names on it.
ProcPreprocess ==
    /\ pc = "proc_preprocess"
    /\ text' = ReplaceSpaceUnderscoreForNames(text, ner_names)
    /\ pc' = "gpn_load"
    /\ UNCHANGED <<procVars, size_type, segment_size, i, yields, normVars, rankVars,
                   gpnVars, result>>

\* Line 288: self._names = the list get_person_names returned.
ProcStore ==
    /\ pc = "gpn_returned"
    /\ names_' = result
    /\ pc' = "proc_done"
    /\ UNCHANGED <<book_text, tokens_, segVars, normVars, rankVars, gpnVars, result>>

NextProc == ProcTokenize \/ ProcPreprocess \/ NextGpn \/ ProcStore

SpecProc == InitProc /\ [][NextProc]_vars

(***************************************************************************)
(* Claims about _process (SpecProc).                                       *)
(***************************************************************************)
JoinedNames == {SpaceToMarker(ner_names[j]) : j \in {h \in 1..Len(ner_names) : HasSeparator(ner_names[h])}}

\* C5: at the end of a run the token stream is the tokenization of the
\* normalized text, and every joined augmented name of the name occurrence
\* list is a token of the token stream, in the same joined form.
C5_TokensFromNormalizedText ==
    pc = "proc_done"
    => /\ tokens_ = WordTokenize(ReplaceSpaceUnderscoreForNames(book_text, ner_names))
       /\ \A j \in 1..Len(names_) : names_[j] \in JoinedNames => names_[j] \in Range(tokens_)

====
